---- MODULE Spec2Model ----
(***************************************************************************)
(* Model of the two backtrader strategies of the repository:               *)
(*   src/long_strat.py            (MLStrategy, long-only)                   *)
(*   src/long_and_short_strat.py  (MLStrategy, long-and-short)              *)
(* The strategy's callbacks (next_open, notify_order, notify_trade) are     *)
(* translated from the source.  The broker, the data feed and the engine    *)
(* that dispatches the callbacks are collaborators outside the repository;  *)
(* they are modelled as the environment described in the specification      *)
(* (sections 3, 4.4, 5 and 6).                                              *)
(*                                                                         *)
(* Money and prices are integers.  A log line is modelled as the message    *)
(* pattern together with the values handed to the format string.           *)
(***************************************************************************)
EXTENDS Integers, Sequences, FiniteSets, TLC

\* ------------------------------------------------------------------ bounds
MaxPeriods == 3
MaxPrice == 2
MaxCash == 5
MaxComm == 1

Prices == 1..MaxPrice
Predictions == {-1, 0, 1}
Comms == 0..MaxComm
PnLs == {-1, 2}
Variants == {"long", "long_and_short"}

\* order statuses of the broker (backtrader Order.Status names)
NonTerminal == {"Submitted", "Accepted"}
Failed == {"Canceled", "Margin", "Rejected"}
Statuses == NonTerminal \cup {"Completed"} \cup Failed \cup {"Expired"}

None == <<>>
Some(x) == <<x>>

VARIABLES
    variant,    \* which of the two source files is the running strategy
    order,      \* self.order
    price,      \* self.price
    comm,       \* self.comm
    log,        \* message patterns of all lines printed by self.log, oldest first
    out,        \* the lines printed by the most recent callback, in full
    position,   \* broker: self.position.size (signed)
    cash,       \* broker: self.broker.getcash()
    fee,        \* broker: the commission it charges per filled order
    bar,        \* data feed: open and close price of the current period
    pending,    \* broker: orders submitted and not yet terminal, oldest first
    notifs,     \* engine: notifications not yet delivered, oldest first
    period,     \* number of next_open calls so far
    intents,    \* buy/sell/close calls made by the most recent callback
    ev,         \* the most recent event: its name, inputs and pre-state
    watch,      \* what became of the orders of the most recent period
    sizing      \* one evaluation of the sizing expression (SpecSize only)

vars == <<variant, order, price, comm, log, out, position, cash, fee, bar, pending,
          notifs,
          period, intents, ev, watch, sizing>>

\* ----------------------------------------------------------------- helpers
Abs(x) == IF x < 0 THEN -x ELSE x

\* one printed line: the message pattern and the formatted values
Msg(kind, args) == [kind |-> kind, args |-> args]

\* the message patterns of a sequence of lines
Kinds(lines) == [i \in 1..Len(lines) |-> lines[i].kind]

\* int(a / b) for b # 0: Python's int() truncates the quotient toward zero
TruncDiv(a, b) ==
    IF (a >= 0) = (b > 0) THEN Abs(a) \div Abs(b) ELSE -(Abs(a) \div Abs(b))

\* size = int(self.broker.getcash() / self.datas[0].open)
Size(c, p) == TruncDiv(c, p)

\* the calls a strategy makes on the broker
Buy(size) == [kind |-> "BUY", size |-> size, isbuy |-> TRUE]
Sell(size) == [kind |-> "SELL", size |-> size, isbuy |-> FALSE]
\* self.close(): an order for the whole position held when it is called
Close == [kind |-> "CLOSE", size |-> Abs(position), isbuy |-> position < 0]

NoAction == [logs |-> <<>>, calls |-> <<>>]

\* --------------------------------------------------- long_strat.py handlers
\* mutants of next_open: the size taken against the close price, and a sell
\* that leaves the size to the default sizer
next_open_long_closeprice(predicted, open, close) ==
    IF position = 0
    THEN IF predicted > 0
         THEN LET size == Size(cash, close)
              IN [logs |-> <<Msg("LONG CREATED", <<size, cash, open, close>>)>>,
                  calls |-> <<Buy(size)>>]
         ELSE NoAction
    ELSE IF predicted < 0
         THEN [logs |-> <<Msg("SELL CREATED", <<position>>)>>,
               calls |-> <<Sell(position)>>]
         ELSE NoAction

next_open_long_sellone(predicted, open, close) ==
    IF position = 0
    THEN IF predicted > 0
         THEN LET size == Size(cash, open)
              IN [logs |-> <<Msg("LONG CREATED", <<size, cash, open, close>>)>>,
                  calls |-> <<Buy(size)>>]
         ELSE NoAction
    ELSE IF predicted < 0
         THEN [logs |-> <<Msg("SELL CREATED", <<position>>)>>,
               calls |-> <<Sell(1)>>]
         ELSE NoAction

\* mutant of next_open: the exit written as in the other variant, a close
\* followed by a sell
next_open_long_closes(predicted, open, close) ==
    IF position = 0
    THEN IF predicted > 0
         THEN LET size == Size(cash, open)
              IN [logs |-> <<Msg("LONG CREATED", <<size, cash, open, close>>)>>,
                  calls |-> <<Buy(size)>>]
         ELSE NoAction
    ELSE IF predicted < 0
         THEN [logs |-> <<Msg("SELL CREATED", <<position>>)>>,
               calls |-> <<Close, Sell(position)>>]
         ELSE NoAction

next_open_long(predicted, open, close) ==
    IF position = 0
    THEN IF predicted > 0
         THEN LET size == Size(cash, open)
              IN [logs |-> <<Msg("LONG CREATED", <<size, cash, open, close>>)>>,
                  calls |-> <<Buy(size)>>]
         ELSE NoAction
    ELSE IF predicted < 0
         THEN [logs |-> <<Msg("SELL CREATED", <<position>>)>>,
               calls |-> <<Sell(position)>>]
         ELSE NoAction

\* mutant of notify_order: the isbuy test left out of the Completed branch
notify_order_long_allbuys(o) ==
    IF o.status \in NonTerminal
    THEN [order |-> order, price |-> price, comm |-> comm, logs |-> <<>>]
    ELSE IF o.status = "Completed"
    THEN [order |-> None, price |-> Some(o.eprice), comm |-> Some(o.ecomm),
          logs |-> <<Msg("BUY EXECUTED", <<o.eprice, o.evalue, o.ecomm>>)>>]
    ELSE IF o.status \in Failed
    THEN [order |-> None, price |-> price, comm |-> comm,
          logs |-> <<Msg("Order Failed", <<>>)>>]
    ELSE [order |-> None, price |-> price, comm |-> comm, logs |-> <<>>]

\* mutant of notify_order: the failure report under else instead of elif
notify_order_long_else(o) ==
    IF o.status \in NonTerminal
    THEN [order |-> order, price |-> price, comm |-> comm, logs |-> <<>>]
    ELSE IF o.status = "Completed"
    THEN IF o.isbuy
         THEN [order |-> None, price |-> Some(o.eprice), comm |-> Some(o.ecomm),
               logs |-> <<Msg("BUY EXECUTED", <<o.eprice, o.evalue, o.ecomm>>)>>]
         ELSE [order |-> None, price |-> price, comm |-> comm,
               logs |-> <<Msg("SELL EXECUTED", <<o.eprice, o.evalue, o.ecomm>>)>>]
    ELSE [order |-> None, price |-> price, comm |-> comm,
          logs |-> <<Msg("Order Failed", <<>>)>>]

\* notify_order: the strategy fields after the call and the lines it logs
notify_order_long(o) ==
    IF o.status \in NonTerminal
    THEN [order |-> order, price |-> price, comm |-> comm, logs |-> <<>>]
    ELSE IF o.status = "Completed"
    THEN IF o.isbuy
         THEN [order |-> None, price |-> Some(o.eprice), comm |-> Some(o.ecomm),
               logs |-> <<Msg("BUY EXECUTED", <<o.eprice, o.evalue, o.ecomm>>)>>]
         ELSE [order |-> None, price |-> price, comm |-> comm,
               logs |-> <<Msg("SELL EXECUTED", <<o.eprice, o.evalue, o.ecomm>>)>>]
    ELSE IF o.status \in Failed
    THEN [order |-> None, price |-> price, comm |-> comm,
          logs |-> <<Msg("Order Failed", <<>>)>>]
    ELSE [order |-> None, price |-> price, comm |-> comm, logs |-> <<>>]

\* mutant of notify_trade: the isclosed test left out
notify_trade_long_always(t) ==
    <<Msg("OPERATION RESULT", <<t.pnl, t.pnlcomm>>)>>

notify_trade_long(t) ==
    IF ~t.isclosed
    THEN <<>>
    ELSE <<Msg("OPERATION RESULT", <<t.pnl, t.pnlcomm>>)>>

\* ----------------------------------------- long_and_short_strat.py handlers
\* mutants of next_open: the short entry copied from the long one without
\* turning buy into sell, and the short entry under else instead of elif
next_open_ls_shortbuys(predicted, open, close) ==
    LET size == Size(cash, open)
    IN IF position = 0
       THEN IF predicted > 0
            THEN [logs |-> <<Msg("LONG CREATED", <<size, cash, open, close>>)>>,
                  calls |-> <<Buy(size)>>]
            ELSE IF predicted < 0
            THEN [logs |-> <<Msg("SHORT CREATED", <<size, cash, open, close>>)>>,
                  calls |-> <<Buy(size)>>]
            ELSE NoAction
       ELSE IF position > 0
            THEN IF predicted < 0
                 THEN [logs |-> <<Msg("CLOSE LONG POSITION", <<position>>)>>,
                       calls |-> <<Close, Sell(size)>>]
                 ELSE NoAction
            ELSE IF predicted > 0
                 THEN [logs |-> <<Msg("CLOSE SHORT POSITION", <<Abs(position)>>)>>,
                       calls |-> <<Close, Buy(size)>>]
                 ELSE NoAction

next_open_ls_else(predicted, open, close) ==
    LET size == Size(cash, open)
    IN IF position = 0
       THEN IF predicted > 0
            THEN [logs |-> <<Msg("LONG CREATED", <<size, cash, open, close>>)>>,
                  calls |-> <<Buy(size)>>]
            ELSE [logs |-> <<Msg("SHORT CREATED", <<size, cash, open, close>>)>>,
                  calls |-> <<Sell(size)>>]
       ELSE IF position > 0
            THEN IF predicted < 0
                 THEN [logs |-> <<Msg("CLOSE LONG POSITION", <<position>>)>>,
                       calls |-> <<Close, Sell(size)>>]
                 ELSE NoAction
            ELSE IF predicted > 0
                 THEN [logs |-> <<Msg("CLOSE SHORT POSITION", <<Abs(position)>>)>>,
                       calls |-> <<Close, Buy(size)>>]
                 ELSE NoAction

\* mutant of next_open: nothing is submitted while an order is outstanding
next_open_ls_waits(predicted, open, close) ==
    LET size == Size(cash, open)
    IN IF pending # <<>>
       THEN NoAction
       ELSE IF position = 0
       THEN IF predicted > 0
            THEN [logs |-> <<Msg("LONG CREATED", <<size, cash, open, close>>)>>,
                  calls |-> <<Buy(size)>>]
            ELSE IF predicted < 0
            THEN [logs |-> <<Msg("SHORT CREATED", <<size, cash, open, close>>)>>,
                  calls |-> <<Sell(size)>>]
            ELSE NoAction
       ELSE IF position > 0
            THEN IF predicted < 0
                 THEN [logs |-> <<Msg("CLOSE LONG POSITION", <<position>>)>>,
                       calls |-> <<Close, Sell(size)>>]
                 ELSE NoAction
            ELSE IF predicted > 0
                 THEN [logs |-> <<Msg("CLOSE SHORT POSITION", <<Abs(position)>>)>>,
                       calls |-> <<Close, Buy(size)>>]
                 ELSE NoAction

\* mutant of next_open: the long reversal reopening with buy instead of sell
next_open_ls_rebuys(predicted, open, close) ==
    LET size == Size(cash, open)
    IN IF position = 0
       THEN IF predicted > 0
            THEN [logs |-> <<Msg("LONG CREATED", <<size, cash, open, close>>)>>,
                  calls |-> <<Buy(size)>>]
            ELSE IF predicted < 0
            THEN [logs |-> <<Msg("SHORT CREATED", <<size, cash, open, close>>)>>,
                  calls |-> <<Sell(size)>>]
            ELSE NoAction
       ELSE IF position > 0
            THEN IF predicted < 0
                 THEN [logs |-> <<Msg("CLOSE LONG POSITION", <<position>>)>>,
                       calls |-> <<Close, Buy(size)>>]
                 ELSE NoAction
            ELSE IF predicted > 0
                 THEN [logs |-> <<Msg("CLOSE SHORT POSITION", <<Abs(position)>>)>>,
                       calls |-> <<Close, Buy(size)>>]
                 ELSE NoAction

next_open_ls(predicted, open, close) ==
    LET size == Size(cash, open)
    IN IF position = 0
       THEN IF predicted > 0
            THEN [logs |-> <<Msg("LONG CREATED", <<size, cash, open, close>>)>>,
                  calls |-> <<Buy(size)>>]
            ELSE IF predicted < 0
            THEN [logs |-> <<Msg("SHORT CREATED", <<size, cash, open, close>>)>>,
                  calls |-> <<Sell(size)>>]
            ELSE NoAction
       ELSE IF position > 0
            THEN IF predicted < 0
                 THEN [logs |-> <<Msg("CLOSE LONG POSITION", <<position>>)>>,
                       calls |-> <<Close, Sell(size)>>]
                 ELSE NoAction
            ELSE IF predicted > 0
                 THEN [logs |-> <<Msg("CLOSE SHORT POSITION", <<Abs(position)>>)>>,
                       calls |-> <<Close, Buy(size)>>]
                 ELSE NoAction

\* mutants of notify_order: Margin missing from the failed statuses, and the
\* failure line naming the status
notify_order_ls_nomargin(o) ==
    IF o.status \in NonTerminal
    THEN [order |-> order, price |-> price, comm |-> comm, logs |-> <<>>]
    ELSE IF o.status \in {"Canceled", "Rejected"}
    THEN [order |-> None, price |-> price, comm |-> comm,
          logs |-> <<Msg("Order Failed", <<>>)>>]
    ELSE [order |-> None, price |-> price, comm |-> comm, logs |-> <<>>]

notify_order_ls_status(o) ==
    IF o.status \in NonTerminal
    THEN [order |-> order, price |-> price, comm |-> comm, logs |-> <<>>]
    ELSE IF o.status \in Failed
    THEN [order |-> None, price |-> price, comm |-> comm,
          logs |-> <<Msg("Order " \o o.status, <<>>)>>]
    ELSE [order |-> None, price |-> price, comm |-> comm, logs |-> <<>>]

notify_order_ls(o) ==
    IF o.status \in NonTerminal
    THEN [order |-> order, price |-> price, comm |-> comm, logs |-> <<>>]
    ELSE IF o.status \in Failed
    THEN [order |-> None, price |-> price, comm |-> comm,
          logs |-> <<Msg("Order Failed", <<>>)>>]
    ELSE [order |-> None, price |-> price, comm |-> comm, logs |-> <<>>]

notify_trade_ls(t) ==
    IF ~t.isclosed
    THEN <<>>
    ELSE <<Msg("OPERATION RESULT", <<t.pnl, t.pnlcomm>>)>>

\* ------------------------------------------------------------- environment
\* Strategy.buy/sell/close hand an order to the broker unless its size is zero
Order(c) == [kind |-> c.kind, size |-> c.size, isbuy |-> c.isbuy, st |-> "Created"]

Submit(calls) ==
    LET nz == SelectSeq(calls, LAMBDA c : c.size # 0)
    IN [i \in 1..Len(nz) |-> Order(nz[i])]

\* signed change of the position when order c is filled
Delta(c) == IF c.isbuy THEN c.size ELSE -c.size

\* the pre-state a callback starts from
Pre == [position |-> position, cash |-> cash, order |-> order,
        price |-> price, comm |-> comm, nlog |-> Len(log),
        npending |-> Len(pending)]

Idle == [st |-> "idle", cash |-> 0, price |-> 0, size |-> 0, raised |-> FALSE]

\* the orders of the most recent period are followed from a period that
\* found no older order outstanding until one of them fails: the position the
\* period started from, the orders it handed to the broker, those filled
NoWatch == [from |-> 0, orders |-> 0, filled |-> 0]

\* before the first period there is no bar
NoBar == [open |-> 0, close |-> 0]

\* __init__ and the account the engine starts the strategy with
StrategyInit ==
    /\ variant \in Variants
    /\ order = None
    /\ price = None
    /\ comm = None
    /\ log = <<>>
    /\ out = <<>>
    /\ position = 0
    /\ cash = MaxCash
    /\ fee \in Comms
    /\ bar = NoBar
    /\ watch = NoWatch
    /\ pending = <<>>
    /\ notifs = <<>>
    /\ period = 0
    /\ intents = <<>>
    /\ ev = [op |-> "init", pre |-> [position |-> 0, cash |-> cash, order |-> None,
                                     price |-> None, comm |-> None, nlog |-> 0,
                                     npending |-> 0],
             arg |-> [none |-> TRUE]]

\* the state after __init__, with an untouched account
Init ==
    /\ sizing = Idle
    /\ StrategyInit

\* the data feed's close price of a bar whose open price is o
ClosePrice(o) == o + 1

\* a new period opens: the engine calls next_open with the bar's data
NextOpen ==
    /\ period < MaxPeriods
    /\ notifs = <<>>
    /\ \E predicted \in Predictions, open \in Prices :
         LET close == ClosePrice(open) IN
         LET r == IF variant = "long"
                  THEN next_open_long(predicted, open, close)
                  ELSE next_open_ls(predicted, open, close)
         IN /\ out' = r.logs
            /\ log' = log \o Kinds(r.logs)
            /\ intents' = r.calls
            /\ pending' = pending \o Submit(r.calls)
            /\ ev' = [op |-> "next_open", pre |-> Pre,
                      arg |-> [predicted |-> predicted, open |-> open,
                               close |-> close]]
            /\ bar' = [open |-> open, close |-> close]
            /\ watch' = IF pending = <<>> /\ Submit(r.calls) # <<>>
                         THEN [from |-> position,
                               orders |-> Len(Submit(r.calls)), filled |-> 0]
                         ELSE NoWatch
    /\ period' = period + 1
    /\ UNCHANGED <<variant, order, price, comm, position, cash, fee, notifs,
                   sizing>>


\* what the broker reports about an order: status, side and execution data
OrderNote(c, status, p, m) ==
    [type |-> "order", status |-> status, isbuy |-> c.isbuy, kind |-> c.kind,
     size |-> c.size,
     eprice |-> p, evalue |-> Abs(c.size) * p, ecomm |-> m]

TradeNote(isclosed, pnl, m) ==
    [type |-> "trade", isclosed |-> isclosed, pnl |-> pnl, pnlcomm |-> pnl - m]

\* the trades touched by a fill that moves the position from a to b
TradeNotes(a, b, pnl, m) ==
    IF a # 0 /\ b = 0 THEN <<TradeNote(TRUE, pnl, m)>>
    ELSE IF (a > 0 /\ b < 0) \/ (a < 0 /\ b > 0)
    THEN <<TradeNote(TRUE, pnl, m), TradeNote(FALSE, 0, 0)>>
    ELSE <<TradeNote(FALSE, 0, m)>>

\* a step of the broker is an event too, though no callback of the strategy
BrokerEv == [op |-> "broker", pre |-> Pre, arg |-> [none |-> TRUE]]

\* the broker takes in the oldest order and reports it submitted or accepted
BrokerAdvance ==
    /\ notifs = <<>>
    /\ pending # <<>>
    /\ Head(pending).st = "Created"
    /\ LET c == Head(pending)
       IN /\ pending' = <<[c EXCEPT !.st = "Accepted"]>> \o Tail(pending)
          /\ \E status \in NonTerminal :
               notifs' = Append(notifs, OrderNote(c, status, 0, 0))
    /\ ev' = BrokerEv
    /\ UNCHANGED <<variant, order, price, comm, log, out, position, cash, fee, bar,
                   period, intents, watch, sizing>>

\* the broker fills the oldest accepted order at the current open price and
\* charges its commission; it never lets the cash go negative
BrokerFill ==
    /\ notifs = <<>>
    /\ pending # <<>>
    /\ Head(pending).st = "Accepted"
    /\ \E pnl \in PnLs :
         LET c == Head(pending)
             newpos == position + Delta(c)
             newcash == cash - Delta(c) * bar.open - fee
         IN /\ newcash >= 0
            /\ position' = newpos
            /\ cash' = newcash
            /\ notifs' = notifs \o <<OrderNote(c, "Completed", bar.open, fee)>>
                                \o TradeNotes(position, newpos, pnl, fee)
    /\ pending' = Tail(pending)
    /\ ev' = BrokerEv
    /\ watch' = IF watch = NoWatch THEN NoWatch
                 ELSE [watch EXCEPT !.filled = @ + 1]
    /\ UNCHANGED <<variant, order, price, comm, log, out, fee, bar, period, intents,
                   sizing>>

\* the broker ends the oldest accepted order without filling it
BrokerFail ==
    /\ notifs = <<>>
    /\ pending # <<>>
    /\ Head(pending).st = "Accepted"
    /\ \E status \in Failed \cup {"Expired"} :
         notifs' = Append(notifs, OrderNote(Head(pending), status, 0, 0))
    /\ pending' = Tail(pending)
    /\ ev' = BrokerEv
    /\ watch' = NoWatch
    /\ UNCHANGED <<variant, order, price, comm, log, out, position, cash, fee, bar,
                   period, intents, sizing>>

\* the engine delivers the oldest notification, an order's; notify_order has
\* no raise statement and no operation that can fail, so it always returns
NotifyOrder ==
    /\ notifs # <<>>
    /\ Head(notifs).type = "order"
    /\ LET o == Head(notifs)
           r == IF variant = "long" THEN notify_order_long(o)
                ELSE notify_order_ls(o)
       IN /\ order' = r.order
          /\ price' = r.price
          /\ comm' = r.comm
          /\ out' = r.logs
          /\ log' = log \o Kinds(r.logs)
          /\ ev' = [op |-> "notify_order", pre |-> Pre, arg |-> o,
                    raised |-> FALSE]
    /\ intents' = <<>>
    /\ notifs' = Tail(notifs)
    /\ UNCHANGED <<variant, position, cash, fee, bar, pending, period, watch,
                   sizing>>

\* the engine delivers the oldest notification, a trade's
NotifyTrade ==
    /\ notifs # <<>>
    /\ Head(notifs).type = "trade"
    /\ LET t == Head(notifs)
           lines == IF variant = "long" THEN notify_trade_long(t)
                    ELSE notify_trade_ls(t)
       IN /\ out' = lines
          /\ log' = log \o Kinds(lines)
          /\ ev' = [op |-> "notify_trade", pre |-> Pre, arg |-> t]
    /\ intents' = <<>>
    /\ notifs' = Tail(notifs)
    /\ UNCHANGED <<variant, order, price, comm, position, cash, fee, bar, pending,
                   period, watch, sizing>>

Next ==
    \/ NextOpen
    \/ BrokerAdvance
    \/ BrokerFill
    \/ BrokerFail
    \/ NotifyOrder
    \/ NotifyTrade

Spec == Init /\ [][Next]_vars

TypeOK ==
    /\ variant \in Variants
    /\ order = None
    /\ position \in Int
    /\ cash \in Nat
    /\ period \in 0..MaxPeriods

\* ------------------------------------------------- the sizing expression
\* inputs of the sizing expression taken on their own, of either sign
SizeCash == (0 - 2 * MaxCash)..(2 * MaxCash)
SizePrice == (0 - MaxPrice)..MaxPrice

InitSize ==
    /\ sizing \in [st : {"in"}, cash : SizeCash, price : SizePrice,
                   size : {0}, raised : {FALSE}]
    /\ StrategyInit

\* int(cash / open); the division raises ZeroDivisionError when open is 0
ApplySize ==
    /\ sizing.st = "in"
    /\ sizing' = IF sizing.price = 0
                 THEN [sizing EXCEPT !.st = "done", !.raised = TRUE]
                 ELSE [sizing EXCEPT !.st = "done",
                                     !.size = Size(sizing.cash, sizing.price)]
    /\ UNCHANGED <<variant, order, price, comm, log, out, position, cash, fee, bar,
                   pending, notifs, period, intents, ev, watch>>

NextSize == ApplySize

SpecSize == InitSize /\ [][NextSize]_vars

\* ------------------------------------------------------------- properties
\* floor(a / b) for b > 0, as the largest integer q with q * b <= a
Floor(a, b) == CHOOSE q \in (0 - Abs(a))..Abs(a) : q * b <= a /\ a < (q + 1) * b

AtNextOpen == ev.op = "next_open"
Flat == ev.pre.position = 0
Long == ev.pre.position > 0
Short == ev.pre.position < 0
Bullish == ev.arg.predicted > 0
Bearish == ev.arg.predicted < 0
Neutral == ev.arg.predicted = 0

\* C1: long-only, FLAT and BULLISH: next_open submits exactly one intent, a
\* BUY of floor(cash / open) for the cash and open price of the period.
C1_FlatBullishBuys ==
    (variant = "long" /\ AtNextOpen /\ Flat /\ Bullish)
        => /\ Len(intents) = 1
           /\ intents[1].kind = "BUY"
           /\ intents[1].size = Floor(ev.pre.cash, ev.arg.open)

C1_Witness ==
    /\ variant = "long" /\ AtNextOpen /\ Flat /\ Bullish
    /\ Len(intents) = 1
    /\ intents[1].size > 1
    /\ ev.pre.cash > intents[1].size * ev.arg.open

\* C2: long-only, LONG and BEARISH: next_open submits exactly one intent, a
\* SELL of the whole position held, and no BUY.
C2_LongBearishSellsAll ==
    (variant = "long" /\ AtNextOpen /\ Long /\ Bearish)
        => /\ Len(intents) = 1
           /\ intents[1].kind = "SELL"
           /\ intents[1].size = ev.pre.position

C2_Witness ==
    /\ variant = "long" /\ AtNextOpen /\ Long /\ Bearish
    /\ Len(intents) = 1
    /\ ev.pre.position > 1

\* C3: long-and-short, FLAT: BULLISH gives exactly one BUY, BEARISH exactly
\* one SELL, both of floor(cash / open), and there is no CLOSE.
C3_FlatOpensEitherSide ==
    (variant = "long_and_short" /\ AtNextOpen /\ Flat /\ ~Neutral)
        => /\ Len(intents) = 1
           /\ intents[1].kind = (IF Bullish THEN "BUY" ELSE "SELL")
           /\ intents[1].size = Floor(ev.pre.cash, ev.arg.open)

C3_Witness ==
    /\ variant = "long_and_short" /\ AtNextOpen /\ Flat /\ Bearish
    /\ Len(intents) = 1
    /\ intents[1].kind = "SELL"
    /\ intents[1].size > 1

\* C5: the (position, signal) pairs listed as no action submit nothing:
\* FLAT+NEUTRAL, LONG+BULLISH, LONG+NEUTRAL in both variants, FLAT+BEARISH
\* in the long-only one, SHORT+BEARISH and SHORT+NEUTRAL in the other.
NoActionCase ==
    /\ AtNextOpen
    /\ \/ Flat /\ Neutral
       \/ Long /\ ~Bearish
       \/ variant = "long" /\ Flat /\ Bearish
       \/ variant = "long_and_short" /\ Short /\ ~Bullish

C5_NoActionPairsSubmitNothing ==
    NoActionCase => /\ intents = <<>>
                    /\ Len(pending) = ev.pre.npending

C5_Witness ==
    /\ NoActionCase
    /\ variant = "long_and_short" /\ Short /\ Bearish
    /\ intents = <<>>

AtNotifyOrder == ev.op = "notify_order"
AtNotifyTrade == ev.op = "notify_trade"
Reversal == (Long /\ Bearish) \/ (Short /\ Bullish)

\* the cash once the CLOSE of the held position is filled at the period's
\* open price
CashAfterClose == ev.pre.cash + ev.pre.position * ev.arg.open

\* C4: long-and-short, reversal: a CLOSE followed by the opposite intent, the
\* size of the second computed from the cash as it stands after the CLOSE.
C4_ReversalSizedAfterClose ==
    (variant = "long_and_short" /\ AtNextOpen /\ Reversal)
        => /\ Len(intents) = 2
           /\ intents[1].kind = "CLOSE"
           /\ intents[2].kind = (IF Long THEN "SELL" ELSE "BUY")
           /\ intents[2].size = Floor(CashAfterClose, ev.arg.open)

\* C6: CANCELED, MARGIN and REJECTED alike: exactly one 'Order Failed' line,
\* the handle none, no new intent and the position as it was.
C6_FailureLoggedOnce ==
    (AtNotifyOrder /\ ev.arg.status \in {"Canceled", "Margin", "Rejected"})
        => /\ out = <<Msg("Order Failed", <<>>)>>
           /\ Len(log) = ev.pre.nlog + 1
           /\ order = None
           /\ intents = <<>>
           /\ Len(pending) = ev.pre.npending
           /\ position = ev.pre.position

C6_Witness ==
    /\ AtNotifyOrder
    /\ ev.arg.status = "Margin"
    /\ Len(out) = 1
    /\ ev.pre.npending > 0

\* C7: COMPLETED: the executed price and commission become the last executed
\* price and commission, one line is logged, 'BUY EXECUTED' for a buy and
\* 'SELL EXECUTED' for a sell, and the handle is none.
C7_CompletedRecordedAndLogged ==
    (AtNotifyOrder /\ ev.arg.status = "Completed")
        => /\ price = Some(ev.arg.eprice)
           /\ comm = Some(ev.arg.ecomm)
           /\ Len(out) = 1
           /\ out[1].kind = (IF ev.arg.isbuy THEN "BUY EXECUTED"
                             ELSE "SELL EXECUTED")
           /\ order = None

\* C8: notify_trade logs exactly one 'OPERATION RESULT' line with the gross
\* and net P&L of a closed trade; for an open trade it logs nothing and
\* leaves the strategy's state alone.
C8_TradeReportedWhenClosed ==
    AtNotifyTrade
        => /\ IF ev.arg.isclosed
              THEN /\ out = <<Msg("OPERATION RESULT",
                                  <<ev.arg.pnl, ev.arg.pnlcomm>>)>>
                   /\ Len(log) = ev.pre.nlog + 1
              ELSE /\ out = <<>>
                   /\ Len(log) = ev.pre.nlog
           /\ order = ev.pre.order
           /\ price = ev.pre.price
           /\ comm = ev.pre.comm

C8_Witness ==
    /\ AtNotifyTrade
    /\ ev.arg.isclosed
    /\ ev.arg.pnl # ev.arg.pnlcomm
    /\ Len(out) = 1

\* C9: the sized quantity is floor(cash / price) for cash > 0 and price > 0,
\* and zero whenever cash <= 0 or price <= 0.
C9_SizeIsFloorOrZero ==
    sizing.st = "done"
        => /\ ~sizing.raised
           /\ IF sizing.cash > 0 /\ sizing.price > 0
              THEN sizing.size = Floor(sizing.cash, sizing.price)
              ELSE sizing.size = 0

\* the part of C9 the code keeps: positive cash and price give the floor
C9_PositiveInputsFloor ==
    (sizing.st = "done" /\ sizing.cash > 0 /\ sizing.price > 0)
        => /\ ~sizing.raised
           /\ sizing.size * sizing.price <= sizing.cash
           /\ sizing.cash < (sizing.size + 1) * sizing.price

\* the message patterns the specification lists
ListedPatterns ==
    {"LONG CREATED", "SHORT CREATED", "CLOSE LONG POSITION",
     "CLOSE SHORT POSITION", "BUY EXECUTED", "SELL EXECUTED", "Order Failed",
     "OPERATION RESULT"}

\* C10 as stated: every line logged follows one of the listed patterns.
C10_OnlyListedPatterns ==
    \A i \in 1..Len(log) : log[i] \in ListedPatterns

\* C10, amended: every line logged follows one of the listed patterns or the
\* long-only variant's 'SELL CREATED --- Size: {n}'.
C10_ListedPatternsOrSellCreated ==
    \A i \in 1..Len(log) : log[i] \in ListedPatterns \cup {"SELL CREATED"}

C10_Witness ==
    /\ variant = "long"
    /\ AtNextOpen /\ Long /\ Bearish
    /\ Len(log) > 0
    /\ log[Len(log)] = "SELL CREATED"

\* the lines of the log that notify_order and notify_trade print
NotificationLines ==
    SelectSeq(log, LAMBDA k : k \in {"BUY EXECUTED", "SELL EXECUTED",
                                     "Order Failed", "OPERATION RESULT"})

\* the long-only run of two periods that ends with the closed trade reported
\* and nothing outstanding: a trade can only have closed if the first period
\* bought, the buy was filled, the second period sold and the sell was filled
TwoPeriodRoundTrip ==
    /\ variant = "long"
    /\ period = 2
    /\ AtNotifyTrade
    /\ ev.arg.isclosed
    /\ pending = <<>>
    /\ notifs = <<>>

\* C11: long-only, period-open(BULLISH, FLAT), buy COMPLETED, period-open
\* (BEARISH, LONG), sell COMPLETED, trade closed: the notifications print
\* BUY EXECUTED, SELL EXECUTED, OPERATION RESULT, in that order and nothing
\* else, and the handle is none at the end.
C11_RoundTripLogsInOrder ==
    TwoPeriodRoundTrip
        => /\ NotificationLines
                = <<"BUY EXECUTED", "SELL EXECUTED", "OPERATION RESULT">>
           /\ order = None

C11_Witness ==
    /\ TwoPeriodRoundTrip
    /\ log = <<"LONG CREATED", "BUY EXECUTED", "SELL CREATED", "SELL EXECUTED",
               "OPERATION RESULT">>
    /\ position = 0

\* the statuses the specification calls terminal
Terminal == {"Completed", "Canceled", "Margin", "Rejected"}

\* C12: right after next_open has submitted a BUY, SELL or CLOSE intent the
\* tracked handle is not none, and the handle becomes none only when a
\* COMPLETED, CANCELED, MARGIN or REJECTED notification is processed.
C12_HandleSetWhileOutstanding ==
    [][/\ (ev'.op = "next_open" /\ intents' # <<>>) => order' # None
       /\ (order # None /\ order' = None)
              => (ev'.op = "notify_order" /\ ev'.arg.status \in Terminal)]_vars

\* C13: notify_order with a status other than COMPLETED, CANCELED, MARGIN and
\* REJECTED (SUBMITTED and ACCEPTED in particular) leaves the handle, the
\* recorded price and commission and the log as they were.
C13_OtherStatusesNoEffect ==
    (AtNotifyOrder /\ ev.arg.status \notin Terminal)
        => /\ order = ev.pre.order
           /\ price = ev.pre.price
           /\ comm = ev.pre.comm
           /\ out = <<>>
           /\ Len(log) = ev.pre.nlog

C13_Witness ==
    /\ AtNotifyOrder
    /\ ev.arg.status = "Accepted"
    /\ ev.pre.price # None
    /\ price = ev.pre.price
    /\ Len(log) > 0

\* a reversal period of the long-and-short variant whose two orders, the
\* CLOSE and the reopening one, have both been filled, with no other period,
\* no older order and no failure in between
ReversalFilled ==
    /\ variant = "long_and_short"
    /\ watch.from # 0
    /\ watch.orders = 2
    /\ watch.filled = 2

C15_QuantitiesPositive ==
    AtNextOpen
        => \A i \in 1..Len(intents) :
               intents[i].kind \in {"BUY", "SELL"} => intents[i].size > 0

\* C16: long-only, under every interleaving of periods and fills the
\* position is never negative.
C16_LongOnlyNeverShort ==
    variant = "long" => position >= 0

\* the orders handed to the broker for which the strategy has not yet been
\* told a final status
InFlight ==
    Len(pending)
    + Len(SelectSeq(notifs, LAMBDA n : n.type = "order"
                                       /\ n.status \notin NonTerminal))

\* C17 as stated: at most one order is in flight at any time.
C17_AtMostOneInFlight ==
    InFlight <= 1

\* the most orders one call of next_open submits
PerPeriod == IF variant = "long" THEN 1 ELSE 2

\* C17, amended: next_open submits at most one order per period in the
\* long-only variant and at most two in the long-and-short variant (the CLOSE
\* and the reopening order of a reversal), whatever is still in flight; the
\* orders in flight are bounded by those submitted so far, not by one.
C17_InFlightBoundedBySubmitted ==
    /\ InFlight <= PerPeriod * period
    /\ AtNextOpen => /\ Len(intents) <= PerPeriod
                     /\ Len(pending) <= ev.pre.npending + PerPeriod

C17_Witness ==
    /\ InFlight = 2
    /\ AtNextOpen
    /\ Len(intents) = PerPeriod

\* the intents of a period as a function of the variant, the position, the
\* signal, the cash and the open price, and of nothing else
IntentsFor(v, pos, f, c, o) ==
    LET q == Floor(c, o)
        buy == [kind |-> "BUY", size |-> q, isbuy |-> TRUE]
        sell == [kind |-> "SELL", size |-> q, isbuy |-> FALSE]
    IN IF v = "long"
       THEN IF pos = 0 /\ f > 0 THEN <<buy>>
            ELSE IF pos # 0 /\ f < 0
            THEN <<[kind |-> "SELL", size |-> pos, isbuy |-> FALSE]>>
            ELSE <<>>
       ELSE IF pos = 0 /\ f > 0 THEN <<buy>>
            ELSE IF pos = 0 /\ f < 0 THEN <<sell>>
            ELSE IF pos > 0 /\ f < 0
            THEN <<[kind |-> "CLOSE", size |-> pos, isbuy |-> FALSE], sell>>
            ELSE IF pos < 0 /\ f > 0
            THEN <<[kind |-> "CLOSE", size |-> 0 - pos, isbuy |-> TRUE], buy>>
            ELSE <<>>

\* C18: next_open does not consult the tracked handle or the outstanding
\* orders: it submits even while an earlier order is outstanding, and the
\* intents of a period are determined by the position, the signal, the cash
\* and the open price alone.
C18_IntentsIgnoreOutstanding ==
    AtNextOpen
        => intents = IntentsFor(variant, ev.pre.position, ev.arg.predicted,
                                ev.pre.cash, ev.arg.open)

C18_Witness ==
    /\ AtNextOpen
    /\ ev.pre.npending > 0
    /\ intents # <<>>
    /\ Len(pending) = ev.pre.npending + 1

\* the statuses notify_order is meant to know
KnownStatuses ==
    {"Submitted", "Accepted", "Completed", "Canceled", "Margin", "Rejected"}

\* C19: a notification whose status is outside {Submitted, Accepted,
\* Completed, Canceled, Margin, Rejected} ends in an error; it is not
\* processed silently.
C19_UnknownStatusFails ==
    (AtNotifyOrder /\ ev.arg.status \notin KnownStatuses) => ev.raised

====
